---- MODULE Spec2Model ----
(***************************************************************************)
(* A model of src/src/lib.rs: a blocking multi-producer single-consumer    *)
(* channel.  Shared<T> is a Mutex<Inner<T>> plus the Condvar `available`;  *)
(* Inner<T> holds `queue` and `senders`.  Every Sender handle is driven by *)
(* its own thread, the Receiver by one more thread.                        *)
(*                                                                         *)
(* Grain of the steps: a lock() and the first statement executed under it  *)
(* are one step, every release of the mutex is a step of its own, and what *)
(* a thread does to its own locals (building the Sender that clone         *)
(* returns, ending drop) belongs to the step that releases the mutex.      *)
(* Condvar::wait releases the mutex and suspends in one step, as the       *)
(* library guarantees; returning from receive releases the mutex.          *)
(***************************************************************************)
EXTENDS Integers, Sequences, FiniteSets, TLC

\* Bounds of the model.
MaxHandles == 2
MaxSends == 2
MaxRecv == 3

Handles == 1..MaxHandles

\* Option<T>: None is the empty tuple, Some(m) the one-element tuple.
None == <<>>
Some(m) == <<m>>

\* Owners of the mutex.
Unlocked == <<>>
ByTx(h) == <<"tx", h>>
ByRx == <<"rx">>

VARIABLES
    queue,      \* Inner.queue
    senders,    \* Inner.senders
    lock,       \* owner of Shared.inner (the Mutex)
    available,  \* threads suspended on the Condvar Shared.available
    pc,         \* per Sender handle: position of its thread
    arg,        \* per Sender handle: the msg argument of the send in progress
    pcR,        \* position of the Receiver's thread
    results,    \* history: the values returned by receive, in order
    issued,     \* history: messages for which send has been called
    appended,   \* history: messages in the order push_back appended them
    callAt,     \* history: per receive call, whether senders was 0 when it was
                \* invoked, and the queue it then found
    gone_at     \* history: how many messages had been appended when the
                \* Receiver went out of scope, -1 while it is in scope

vars == <<queue, senders, lock, available, pc, arg, pcR, results, issued,
          appended, callAt, gone_at>>

----------------------------------------------------------------------------
\* VecDeque::push_back
PushFrontBug(q, m) == <<m>> \o q
push_back(q, m) == Append(q, m)

\* VecDeque::pop_front: the Option returned and the deque left behind.
PopFrontKeepBug(q) ==
    IF q = <<>> THEN [val |-> None, rest |-> q]
    ELSE [val |-> Some(Head(q)), rest |-> q]
PopFrontDropBug(q) ==
    IF q = <<>> THEN [val |-> None, rest |-> q]
    ELSE [val |-> Some(Head(q)), rest |-> IF Len(q) > 1 THEN Tail(Tail(q)) ELSE <<>>]
PopBackBug(q) ==
    IF q = <<>> THEN [val |-> None, rest |-> q]
    ELSE [val |-> Some(q[Len(q)]), rest |-> SubSeq(q, 1, Len(q) - 1)]
pop_front(q) ==
    IF q = <<>> THEN [val |-> None, rest |-> q]
    ELSE [val |-> Some(Head(q)), rest |-> Tail(q)]

\* Drop for Sender: `let was_last = q_lock.senders == 1;`
WasLastAtZeroBug(s) == s = 0
was_last(s) == s = 1

\* Receiver::receive: the guard `inner.senders == 0` of the second arm.
SendersGoneOffByOneBug(s) == s <= 1
SendersGoneAtOneBug(s) == s = 1
senders_gone(s) == s = 0

\* Condvar::notify_one: wakes one suspended thread, and is lost when there
\* is none.  A woken thread still has to reacquire the mutex.
NotifyNobodyBug == UNCHANGED available
notify_one ==
    IF available = {} THEN UNCHANGED available
    ELSE \E w \in available : available' = available \ {w}

----------------------------------------------------------------------------
\* channel(): empty queue, senders = 1, one Sender and one Receiver.
InitNoSenderBug ==
    /\ queue = <<>>
    /\ senders = 0
    /\ lock = Unlocked
    /\ available = {}
    /\ pc = [h \in Handles |-> IF h = 1 THEN "idle" ELSE "unborn"]
    /\ arg = [h \in Handles |-> None]
    /\ pcR = "idle"
    /\ results = <<>>
    /\ issued = {}
    /\ appended = <<>>
    /\ callAt = <<>>
    /\ gone_at = -1
Init ==
    /\ queue = <<>>
    /\ senders = 1
    /\ lock = Unlocked
    /\ available = {}
    /\ pc = [h \in Handles |-> IF h = 1 THEN "idle" ELSE "unborn"]
    /\ arg = [h \in Handles |-> None]
    /\ pcR = "idle"
    /\ results = <<>>
    /\ issued = {}
    /\ appended = <<>>
    /\ callAt = <<>>
    /\ gone_at = -1

----------------------------------------------------------------------------
\* Sender::send

\* The caller invokes send(msg) on a live handle.  The message is named by
\* the handle and by its rank among the sends of that handle.
send_call(h) ==
    /\ pc[h] = "idle"
    /\ Cardinality(issued) < MaxSends
    /\ LET m == <<h, Cardinality({x \in issued : x[1] = h}) + 1>> IN
        /\ arg' = [arg EXCEPT ![h] = Some(m)]
        /\ issued' = issued \cup {m}
    /\ pc' = [pc EXCEPT ![h] = "send_push"]
    /\ UNCHANGED <<queue, senders, lock, available, pcR, results, appended, callAt, gone_at>>

\* self.shared.inner.lock().unwrap().queue.push_back(msg)
send_push_unless_gone_bug(h) ==
    /\ pc[h] = "send_push"
    /\ lock = Unlocked
    /\ lock' = ByTx(h)
    /\ queue' = IF pcR = "dead" THEN queue ELSE push_back(queue, arg[h][1])
    /\ appended' = IF pcR = "dead" THEN appended ELSE Append(appended, arg[h][1])
    /\ arg' = [arg EXCEPT ![h] = None]
    /\ pc' = [pc EXCEPT ![h] = "send_unlock"]
    /\ UNCHANGED <<senders, available, pcR, results, issued, callAt, gone_at>>
send_push(h) ==
    /\ pc[h] = "send_push"
    /\ lock = Unlocked
    /\ lock' = ByTx(h)
    /\ queue' = push_back(queue, arg[h][1])
    /\ appended' = Append(appended, arg[h][1])
    /\ arg' = [arg EXCEPT ![h] = None]
    /\ pc' = [pc EXCEPT ![h] = "send_unlock"]
    /\ UNCHANGED <<senders, available, pcR, results, issued, callAt, gone_at>>

\* the temporary guard is dropped at the end of the statement
send_unlock(h) ==
    /\ pc[h] = "send_unlock"
    /\ lock' = Unlocked
    /\ pc' = [pc EXCEPT ![h] = "send_relock"]
    /\ UNCHANGED <<queue, senders, available, arg, pcR, results, issued, appended, callAt, gone_at>>

\* drop(self.shared.inner.lock()): the mutex is acquired a second time and the
\* guard is dropped at once; nothing is read or written while it is held.
send_relock_hold_bug(h) ==
    /\ pc[h] = "send_relock"
    /\ lock = Unlocked
    /\ lock' = ByTx(h)
    /\ pc' = [pc EXCEPT ![h] = "send_notify"]
    /\ UNCHANGED <<queue, senders, available, arg, pcR, results, issued, appended, callAt, gone_at>>
send_relock(h) ==
    /\ pc[h] = "send_relock"
    /\ lock = Unlocked
    /\ pc' = [pc EXCEPT ![h] = "send_notify"]
    /\ UNCHANGED <<queue, senders, lock, available, arg, pcR, results, issued, appended, callAt, gone_at>>

\* self.shared.available.notify_one(), then send returns
send_notify_skip_bug(h) ==
    /\ pc[h] = "send_notify"
    /\ pc' = [pc EXCEPT ![h] = "idle"]
    /\ UNCHANGED <<queue, senders, lock, available, arg, pcR, results, issued, appended, callAt, gone_at>>
send_notify(h) ==
    /\ pc[h] = "send_notify"
    /\ notify_one
    /\ pc' = [pc EXCEPT ![h] = "idle"]
    /\ UNCHANGED <<queue, senders, lock, arg, pcR, results, issued, appended, callAt, gone_at>>

----------------------------------------------------------------------------
\* Clone for Sender

\* The caller invokes clone() on a live handle; the model has room for at most
\* MaxHandles handles, counting the ones that clones in progress will return.
clone_call(h) ==
    /\ pc[h] = "idle"
    /\ Cardinality({n \in Handles : pc[n] = "unborn"})
         > Cardinality({n \in Handles : pc[n] \in {"clone_inc", "clone_unlock"}})
    /\ pc' = [pc EXCEPT ![h] = "clone_inc"]
    /\ UNCHANGED <<queue, senders, lock, available, arg, pcR, results, issued, appended, callAt, gone_at>>

\* let mut q_lock = self.shared.inner.lock().unwrap(); q_lock.senders += 1
clone_inc_skip_bug(h) ==
    /\ pc[h] = "clone_inc"
    /\ lock = Unlocked
    /\ lock' = ByTx(h)
    /\ pc' = [pc EXCEPT ![h] = "clone_unlock"]
    /\ UNCHANGED <<queue, senders, available, arg, pcR, results, issued, appended, callAt, gone_at>>
clone_inc(h) ==
    /\ pc[h] = "clone_inc"
    /\ lock = Unlocked
    /\ lock' = ByTx(h)
    /\ senders' = senders + 1
    /\ pc' = [pc EXCEPT ![h] = "clone_unlock"]
    /\ UNCHANGED <<queue, available, arg, pcR, results, issued, appended, callAt, gone_at>>

\* drop(q_lock); Self { shared: Arc::clone(&self.shared) }: the new handle
\* exists once clone has returned it.
clone_unlock_notify_bug(h) ==
    /\ pc[h] = "clone_unlock"
    /\ lock' = Unlocked
    /\ notify_one
    /\ LET n == CHOOSE k \in Handles :
                    /\ pc[k] = "unborn"
                    /\ \A j \in Handles : pc[j] = "unborn" => k <= j
       IN pc' = [pc EXCEPT ![h] = "idle", ![n] = "idle"]
    /\ UNCHANGED <<queue, senders, arg, pcR, results, issued, appended, callAt, gone_at>>
clone_unlock(h) ==
    /\ pc[h] = "clone_unlock"
    /\ lock' = Unlocked
    /\ LET n == CHOOSE k \in Handles :
                    /\ pc[k] = "unborn"
                    /\ \A j \in Handles : pc[j] = "unborn" => k <= j
       IN pc' = [pc EXCEPT ![h] = "idle", ![n] = "idle"]
    /\ UNCHANGED <<queue, senders, available, arg, pcR, results, issued, appended, callAt, gone_at>>

----------------------------------------------------------------------------
\* Drop for Sender

\* The owner lets a live handle go out of scope: drop(&mut self) starts.
drop_call(h) ==
    /\ pc[h] = "idle"
    /\ pc' = [pc EXCEPT ![h] = "drop_dec"]
    /\ UNCHANGED <<queue, senders, lock, available, arg, pcR, results, issued, appended, callAt, gone_at>>

\* let mut q_lock = self.shared.inner.lock().unwrap();
\* q_lock.senders -= 1; let was_last = q_lock.senders == 1
drop_dec_skip_bug(h) ==
    /\ pc[h] = "drop_dec"
    /\ lock = Unlocked
    /\ lock' = ByTx(h)
    /\ pc' = [pc EXCEPT ![h] = IF was_last(senders) THEN "drop_notify" ELSE "drop_unlock"]
    /\ UNCHANGED <<queue, senders, available, arg, pcR, results, issued, appended, callAt, gone_at>>
drop_dec(h) ==
    /\ pc[h] = "drop_dec"
    /\ lock = Unlocked
    /\ lock' = ByTx(h)
    /\ senders' = senders - 1
    /\ pc' = [pc EXCEPT ![h] = IF was_last(senders') THEN "drop_notify" ELSE "drop_unlock"]
    /\ UNCHANGED <<queue, available, arg, pcR, results, issued, appended, callAt, gone_at>>

\* if was_last { self.shared.available.notify_one() }
drop_notify(h) ==
    /\ pc[h] = "drop_notify"
    /\ notify_one
    /\ pc' = [pc EXCEPT ![h] = "drop_unlock"]
    /\ UNCHANGED <<queue, senders, lock, arg, pcR, results, issued, appended, callAt, gone_at>>

\* drop(q_lock): the handle is gone when drop returns
drop_unlock(h) ==
    /\ pc[h] = "drop_unlock"
    /\ lock' = Unlocked
    /\ pc' = [pc EXCEPT ![h] = "dead"]
    /\ UNCHANGED <<queue, senders, available, arg, pcR, results, issued, appended, callAt, gone_at>>

----------------------------------------------------------------------------
\* Receiver::receive

receive_call ==
    /\ pcR = "idle"
    /\ Len(callAt) < MaxRecv
    /\ callAt' = Append(callAt, [closed |-> senders = 0,
                                 queue |-> IF senders = 0 THEN queue ELSE <<>>])
    /\ pcR' = "recv_lock"
    /\ UNCHANGED <<queue, senders, lock, available, pc, arg, results, issued, appended, gone_at>>

\* let mut inner = self.shared.inner.lock().unwrap(), and the reacquisition
\* of the mutex inside Condvar::wait once the thread has been woken.
receive_lock ==
    /\ \/ pcR = "recv_lock"
       \/ pcR = "recv_wait" /\ "rx" \notin available
    /\ lock = Unlocked
    /\ lock' = ByRx
    /\ pcR' = "recv_loop"
    /\ UNCHANGED <<queue, senders, available, pc, arg, results, issued, appended, callAt, gone_at>>

\* One iteration of the loop, the mutex held: the three arms of the match.
receive_loop_hold_bug ==
    /\ pcR = "recv_loop"
    /\ LET p == pop_front(queue) IN
        /\ queue' = p.rest
        /\ IF p.val # None
           THEN /\ results' = Append(results, p.val)
                /\ lock' = Unlocked
                /\ pcR' = "idle"
                /\ UNCHANGED available
           ELSE IF senders_gone(senders)
           THEN /\ results' = Append(results, None)
                /\ lock' = Unlocked
                /\ pcR' = "idle"
                /\ UNCHANGED available
           ELSE /\ available' = available \cup {"rx"}
                /\ pcR' = "recv_wait"
                /\ UNCHANGED <<results, lock>>
    /\ UNCHANGED <<senders, pc, arg, issued, appended, callAt, gone_at>>
receive_loop ==
    /\ pcR = "recv_loop"
    /\ LET p == pop_front(queue) IN
        /\ queue' = p.rest
        /\ IF p.val # None
           THEN \* Some(msg) => return Some(msg)
                /\ results' = Append(results, p.val)
                /\ lock' = Unlocked
                /\ pcR' = "idle"
                /\ UNCHANGED available
           ELSE IF senders_gone(senders)
           THEN \* None if inner.senders == 0 => return None
                /\ results' = Append(results, None)
                /\ lock' = Unlocked
                /\ pcR' = "idle"
                /\ UNCHANGED available
           ELSE \* None => inner = self.shared.available.wait(inner).unwrap()
                /\ available' = available \cup {"rx"}
                /\ lock' = Unlocked
                /\ pcR' = "recv_wait"
                /\ UNCHANGED results
    /\ UNCHANGED <<senders, pc, arg, issued, appended, callAt, gone_at>>

\* Condvar::wait may return without any notification.
spurious_wakeup ==
    /\ pcR = "recv_wait"
    /\ "rx" \in available
    /\ available' = available \ {"rx"}
    /\ UNCHANGED <<queue, senders, lock, pc, arg, pcR, results, issued, appended, callAt, gone_at>>

\* The Receiver goes out of scope (it has no Drop impl).
receiver_drop ==
    /\ pcR = "idle"
    /\ pcR' = "dead"
    /\ gone_at' = Len(appended)
    /\ UNCHANGED <<queue, senders, lock, available, pc, arg, results, issued, appended, callAt>>

----------------------------------------------------------------------------
Next ==
    \/ \E h \in Handles : send_call(h)
    \/ \E h \in Handles : send_push(h)
    \/ \E h \in Handles : send_unlock(h)
    \/ \E h \in Handles : send_relock(h)
    \/ \E h \in Handles : send_notify(h)
    \/ \E h \in Handles : clone_call(h)
    \/ \E h \in Handles : clone_inc(h)
    \/ \E h \in Handles : clone_unlock(h)
    \/ \E h \in Handles : drop_call(h)
    \/ \E h \in Handles : drop_dec(h)
    \/ \E h \in Handles : drop_notify(h)
    \/ \E h \in Handles : drop_unlock(h)
    \/ receive_call
    \/ receive_lock
    \/ receive_loop
    \/ spurious_wakeup
    \/ receiver_drop

Spec == Init /\ [][Next]_vars

----------------------------------------------------------------------------
\* Fair scheduling: a thread that is inside an operation keeps running, and a
\* thread that asks for the mutex gets it if the mutex is free again and
\* again.  Nothing obliges a caller to start an operation, and nothing
\* obliges the Condvar to wake a thread that was not notified.
TxStep(h) ==
    \/ send_push(h) \/ send_unlock(h) \/ send_relock(h) \/ send_notify(h)
    \/ clone_inc(h) \/ clone_unlock(h)
    \/ drop_dec(h) \/ drop_notify(h) \/ drop_unlock(h)

RxStep == receive_lock \/ receive_loop

FairSpec ==
    /\ Init /\ [][Next]_vars
    /\ \A h \in Handles : SF_vars(TxStep(h))
    /\ SF_vars(RxStep)

----------------------------------------------------------------------------
\* Vocabulary of the properties.

\* The Receiver is suspended on the Condvar / has been woken and waits for the mutex.
RxSuspended == pcR = "recv_wait" /\ "rx" \in available
RxWoken == pcR = "recv_wait" /\ "rx" \notin available

\* Handles that have been created and whose destruction has not finished.
LiveHandles == {h \in Handles : pc[h] \notin {"unborn", "dead"}}

\* The messages among the values receive has returned, in order.
RECURSIVE Somes(_)
Somes(rs) ==
    IF rs = <<>> THEN <<>>
    ELSE IF Head(rs) = None THEN Somes(Tail(rs))
    ELSE <<Head(rs)[1]>> \o Somes(Tail(rs))

Range(f) == {f[i] : i \in DOMAIN f}
Count(f, x) == Cardinality({i \in DOMAIN f : f[i] = x})

\* The value returned by the receive call that ends in this step, if one does.
ReturnsNone == Len(results') = Len(results) + 1 /\ results'[Len(results')] = None

\* Handles whose thread is between the lock and the unlock of clone / of drop.
InCloneCS == {h \in Handles : pc[h] = "clone_unlock"}
InDropCS == {h \in Handles : pc[h] \in {"drop_notify", "drop_unlock"}}

\* Messages whose send has been called but has not yet reached push_back.
NotYetPushed == {arg[h][1] : h \in {k \in Handles : arg[k] # None}}

----------------------------------------------------------------------------
\* C1: closure detection.  The Receiver is never left suspended on the Condvar
\* once every Sender handle has been destroyed and the queue is empty: in such
\* a state no thread is left to notify it, so the receive call could only end
\* through a spurious wakeup, and otherwise blocks for ever instead of
\* returning None.
C1_NoStrandedReceiver ==
    ~ ( /\ RxSuspended
        /\ queue = <<>>
        /\ \A h \in Handles : pc[h] \in {"unborn", "dead"}
        /\ \E h \in Handles : pc[h] = "dead" )

\* C2: (liveness, fair scheduling) whenever the Receiver is suspended in its
\* n+1st receive call and a live handle has called send, that same receive call
\* eventually returns Some(message), with no further call needed.
C2_LateSendWakes ==
    \A n \in 0..(MaxRecv - 1) :
        (RxSuspended /\ Len(results) = n /\ \E h \in Handles : pc[h] = "send_push")
            ~> (Len(results) > n /\ results[n + 1] # None)

\* Witness for C2: the Receiver is suspended, so it found the queue empty, and
\* a send that came later has appended its message and is about to notify.
C2_Witness ==
    /\ RxSuspended
    /\ queue # <<>>
    /\ \E h \in Handles : pc[h] = "send_notify"

\* C3: no loss, no duplication.  Every message whose send has appended it is
\* in the queue exactly once or was returned by exactly one receive, never both
\* and never neither; a message not yet appended is in neither; and nothing is
\* queued or returned that was not sent.
C3_NoLossNoDup ==
    /\ \A m \in issued :
         Count(queue, m) + Count(results, Some(m))
            = IF m \in NotYetPushed THEN 0 ELSE 1
    /\ Range(queue) \cup Range(Somes(results)) \subseteq issued

\* Witness for C3: one message has been received while another is still queued.
C3_Witness == Len(Somes(results)) >= 1 /\ queue # <<>> /\ NotYetPushed = {}

C5_OpenWhileLive ==
    /\ []((LiveHandles \ InDropCS # {}) => senders >= 1)
    /\ [][ReturnsNone => LiveHandles = {}]_vars

\* Witness for C5: the original handle has been destroyed after a clone, and
\* the first receive call is still suspended on the empty queue.
C5_Witness ==
    /\ pc[1] = "dead"
    /\ LiveHandles # {}
    /\ senders >= 1
    /\ RxSuspended
    /\ queue = <<>>
    /\ results = <<>>

\* C6: drain before the closed sentinel.  A receive call invoked when senders
\* is 0 does not suspend; it returns the head of the queue it found, or None
\* if that queue was empty; the next call finds the rest of that queue; and no
\* receive call returns None while the queue is non-empty.
C6_DrainThenClosed ==
    /\ [](\A i \in DOMAIN callAt :
            callAt[i].closed =>
              /\ i <= Len(results) =>
                    results[i] = IF callAt[i].queue = <<>> THEN None
                                 ELSE Some(Head(callAt[i].queue))
              /\ i > Len(results) =>
                    /\ pcR \in {"recv_lock", "recv_loop"}
                    /\ queue = callAt[i].queue
              /\ i < Len(callAt) =>
                    /\ callAt[i + 1].closed
                    /\ callAt[i + 1].queue =
                         IF callAt[i].queue = <<>> THEN <<>> ELSE Tail(callAt[i].queue))
    /\ [][ReturnsNone => queue = <<>>]_vars

\* Witness for C6: two messages were queued at closure; two calls returned
\* them and the third returned None.
C6_Witness ==
    /\ Len(results) = 3
    /\ callAt[1].closed
    /\ Len(callAt[1].queue) = 2
    /\ results[3] = None

\* Handles whose thread is inside drop.
InDrop == {h \in Handles : pc[h] \in {"drop_dec", "drop_notify", "drop_unlock"}}

\* C7: global enqueue order.  The messages receive has returned, followed by
\* the messages still queued, are the messages in the order in which push_back
\* appended them, whichever handle sent each; and no step of a handle's
\* destruction changes the queue.
C7_GlobalAppendOrder ==
    /\ [](Somes(results) \o queue = appended)
    /\ [][(\E h \in InDrop : pc'[h] # pc[h]) => queue' = queue]_vars

\* Witness for C7: the clone sent, then the original sent, the clone was
\* destroyed, and two receive calls returned the two messages in that order.
C7_Witness ==
    /\ appended = << <<2, 1>>, <<1, 1>> >>
    /\ pc[2] = "dead"
    /\ results = << Some(<<2, 1>>), Some(<<1, 1>>) >>
    /\ queue = <<>>

\* C8: a receive call invoked with the queue empty and senders = 0 returns
\* None without suspending, and leaves the queue and senders as they were.
C8_ClosedEmptyReturnsNone ==
    \A i \in DOMAIN callAt :
        (callAt[i].closed /\ callAt[i].queue = <<>>) =>
            /\ queue = <<>>
            /\ senders = 0
            /\ i <= Len(results) => results[i] = None
            /\ i > Len(results) => pcR \in {"recv_lock", "recv_loop"}

\* Witness for C8: the first receive call was made on the closed, empty
\* channel and has returned.
C8_Witness ==
    /\ Len(results) >= 1
    /\ callAt[1].closed
    /\ callAt[1].queue = <<>>
    /\ pcR = "idle"

\* C9: closure is permanent.  Once a receive call has returned None, the queue
\* is empty, senders is 0, no handle is live, and every later receive call
\* has returned None too.
C9_ClosurePermanent ==
    \A i \in DOMAIN results :
        results[i] = None =>
            /\ queue = <<>>
            /\ senders = 0
            /\ LiveHandles = {}
            /\ \A j \in DOMAIN results : j > i => results[j] = None

\* Witness for C9: a message, then None, then None again.
C9_Witness ==
    /\ Len(results) = 3
    /\ results[1] # None
    /\ results[2] = None
    /\ results[3] = None

\* C10: whenever no thread is inside the critical section of clone or of drop,
\* senders is the number of handles created and not yet destroyed; and senders
\* only changes by +1 in clone and by -1 in drop, the mutex held by that thread.
C10_CountMatchesHandles ==
    /\ []((InCloneCS \cup InDropCS = {}) => senders = Cardinality(LiveHandles))
    /\ [][senders' # senders =>
            \E h \in Handles :
                /\ lock' = ByTx(h)
                /\ \/ pc[h] = "clone_inc" /\ pc'[h] = "clone_unlock" /\ senders' = senders + 1
                   \/ /\ pc[h] = "drop_dec"
                      /\ pc'[h] \in {"drop_notify", "drop_unlock"}
                      /\ senders' = senders - 1]_vars

\* Witness for C10: a handle has been destroyed, another is live, no clone or
\* drop is under way, and senders counts the live ones.
C10_Witness ==
    /\ lock = Unlocked
    /\ InCloneCS \cup InDropCS = {}
    /\ Cardinality({h \in Handles : pc[h] = "dead"}) >= 1
    /\ Cardinality(LiveHandles) >= 1
    /\ senders = Cardinality(LiveHandles)

\* Handles whose thread is inside send, clone or drop.
Busy == {h \in Handles : pc[h] \notin {"unborn", "idle", "dead"}}

\* The step suspends a thread on the Condvar.
Suspends == available' # available /\ available \subseteq available'

\* C11: producers never block.  Under fair scheduling every send, clone and
\* drop that has started completes (no handle stays inside an operation for
\* ever); the Receiver does not hold the mutex while
\* it is suspended; only the Receiver is ever suspended on the Condvar, and it
\* suspends only with the queue empty and senders > 0.
C11_ProducersNeverBlock ==
    /\ \A h \in Handles : []<>(h \notin Busy)
    /\ [](pcR = "recv_wait" => lock # ByRx)
    /\ [](available \subseteq {"rx"})
    /\ [][Suspends => /\ pcR = "recv_loop"
                       /\ available' = {"rx"}
                       /\ queue = <<>>
                       /\ senders > 0]_vars

\* Witness for C11: a send holds the mutex, its message appended, while the
\* Receiver is suspended.
C11_Witness ==
    /\ RxSuspended
    /\ \E h \in Handles : pc[h] = "send_unlock" /\ lock = ByTx(h)

\* The step is the push_back of a send.
Pushes(h) == pc[h] = "send_push" /\ pc'[h] = "send_unlock"

\* C12: send after the Receiver is gone is silently accepted.  With the
\* Receiver out of scope, a send still appends its message at the tail and
\* runs to its end like any other; no step then removes or moves a queued
\* message; and the Receiver never comes back.
C12_SendAfterReceiverGone ==
    /\ [][pcR = "dead" =>
            /\ pcR' = "dead"
            /\ Len(queue') >= Len(queue)
            /\ SubSeq(queue', 1, Len(queue)) = queue
            /\ \A h \in Handles :
                  /\ Pushes(h) => queue' = Append(queue, arg[h][1])
                  /\ pc[h] = "send_push" => pc'[h] \in {"send_push", "send_unlock"}
                  /\ pc[h] = "send_unlock" => pc'[h] \in {"send_unlock", "send_relock"}
                  /\ pc[h] = "send_relock" => pc'[h] \in {"send_relock", "send_notify"}
                  /\ pc[h] = "send_notify" => pc'[h] \in {"send_notify", "idle"}]_vars
    /\ [](pcR = "dead" => /\ Len(appended) >= gone_at
                          /\ Len(queue) >= Len(appended) - gone_at
                          /\ SubSeq(appended, gone_at + 1, Len(appended))
                               = SubSeq(queue, Len(queue) - (Len(appended) - gone_at) + 1,
                                        Len(queue)))

\* Witness for C12: a message appended after the Receiver went out of scope
\* sits in the queue, and the send that appended it has returned.
C12_Witness ==
    /\ pcR = "dead"
    /\ Len(appended) > gone_at
    /\ queue # <<>>
    /\ Busy = {}

\* No operation on a Sender has been started since channel() returned.
Fresh ==
    /\ pc = [h \in Handles |-> IF h = 1 THEN "idle" ELSE "unborn"]
    /\ issued = {}

\* C13: the channel constructor.  As long as no Sender operation has been
\* started, the queue is empty, senders is 1, exactly one Sender and the one
\* Receiver exist on the same state with the mutex free of any Sender, and a
\* receive called in this state has not returned: its first iteration suspends.
C13_ChannelInitialState ==
    /\ [](Fresh => /\ queue = <<>>
                   /\ senders = 1
                   /\ LiveHandles = {1}
                   /\ lock \in {Unlocked, ByRx}
                   /\ results = <<>>
                   /\ Len(callAt) <= 1
                   /\ \A i \in DOMAIN callAt : ~callAt[i].closed)
    /\ [][(Fresh /\ pcR = "recv_loop" /\ pcR' # pcR) =>
                (pcR' = "recv_wait" /\ available' = {"rx"} /\ lock' = Unlocked)]_vars

\* Witness for C13: receive was called on the channel as constructed and is
\* suspended.
C13_Witness == Fresh /\ RxSuspended

\* The step is the decrement of a drop / the notify_one of a drop.
Decrements(h) == pc[h] = "drop_dec" /\ pc'[h] # "drop_dec"
DropNotifies(h) == pc[h] = "drop_notify" /\ pc'[h] = "drop_unlock"

\* C14: the drop that takes senders from 1 to 0 issues a wake notification:
\* after that decrement the drop goes on to notify_one.
C14_LastDropNotifies ==
    [][\A h \in Handles :
          (Decrements(h) /\ senders = 1 /\ senders' = 0) => pc'[h] = "drop_notify"]_vars

C16_CloneFrame ==
    [][\A h \in Handles :
          /\ (pc[h] = "idle" /\ pc'[h] = "clone_inc") =>
                UNCHANGED <<queue, senders, lock, available, pcR, results>>
          /\ (pc[h] = "clone_inc" /\ pc'[h] # pc[h]) =>
                /\ pc'[h] = "clone_unlock"
                /\ senders' = senders + 1
                /\ lock' = ByTx(h)
                /\ UNCHANGED <<queue, available, pcR, results>>
          /\ (pc[h] = "clone_unlock" /\ pc'[h] # pc[h]) =>
                /\ lock = ByTx(h)
                /\ lock' = Unlocked
                /\ UNCHANGED <<queue, senders, available, pcR, results>>]_vars

\* Witness for C16: a clone has raised senders to 2 while the Receiver is
\* suspended, and the Receiver is suspended still.
C16_Witness ==
    /\ RxSuspended
    /\ senders = 2
    /\ \E h \in Handles : pc[h] = "clone_unlock"

\* C17: send appends exactly its message at the tail, the mutex held, and
\* leaves senders alone; its second acquisition of the mutex changes nothing;
\* only its last step notifies, and by then the mutex has been released.
C17_SendFrame ==
    /\ [][\A h \in Handles :
            /\ Pushes(h) =>
                 /\ queue' = Append(queue, arg[h][1])
                 /\ lock = Unlocked /\ lock' = ByTx(h)
                 /\ UNCHANGED <<senders, available>>
            /\ (pc[h] = "send_unlock" /\ pc'[h] # pc[h]) =>
                 /\ lock' = Unlocked
                 /\ UNCHANGED <<queue, senders, available>>
            /\ (pc[h] = "send_relock" /\ pc'[h] # pc[h]) =>
                 UNCHANGED <<queue, senders, lock, available, pcR, results>>
            /\ (pc[h] = "send_notify" /\ pc'[h] # pc[h]) =>
                 UNCHANGED <<queue, senders, lock>>]_vars
    /\ [](\A h \in Handles : pc[h] \in {"send_relock", "send_notify"} => lock # ByTx(h))

\* Witness for C17: a second message has been appended behind the first, and
\* its send has given the mutex back and is about to notify.
C17_Witness ==
    /\ Len(queue) = 2
    /\ queue = appended
    /\ lock = Unlocked
    /\ \E h \in Handles : pc[h] = "send_notify"

\* The step is a notify_one, by send or by drop.
Notifies == \E h \in Handles :
    /\ pc[h] \in {"send_notify", "drop_notify"}
    /\ pc'[h] # pc[h]

\* C18: notify-one suffices.  At most one thread, the Receiver, is suspended
\* on the Condvar; a notify_one issued while it is suspended wakes it; once
\* woken it takes the mutex and runs the loop again; and receive returns or
\* suspends again only from the loop, the mutex held.
C18_NotifyOneSuffices ==
    /\ [](available \subseteq {"rx"} /\ Cardinality(available) <= 1)
    /\ [][(Notifies /\ RxSuspended) => (available' = {} /\ pcR' = "recv_wait")]_vars
    /\ [][(RxWoken /\ pcR' # pcR) => (pcR' = "recv_loop" /\ lock' = ByRx)]_vars
    /\ [][(results' # results \/ Suspends) => (pcR = "recv_loop" /\ lock = ByRx)]_vars

\* Witness for C18: the Receiver has been taken off the Condvar, the queue
\* holds a message, and the send that appended it has returned.
C18_Witness ==
    /\ RxWoken
    /\ queue # <<>>
    /\ Busy = {}

\* C19: senders never underflows.  It is never negative, and the decrement of
\* drop is only ever executed with senders >= 1.
C19_NoUnderflow ==
    /\ [](senders >= 0)
    /\ [][\A h \in Handles : Decrements(h) => senders >= 1]_vars

\* Witness for C19: a clone and two drops, in any interleaving, have brought
\* senders to 0.
C19_Witness ==
    /\ senders = 0
    /\ Cardinality({h \in Handles : pc[h] = "dead"}) >= 2

TypeOK ==
    /\ senders \in 0..MaxHandles
    /\ Len(queue) <= MaxSends
    /\ lock \in {Unlocked, ByRx} \cup {ByTx(h) : h \in Handles}
    /\ available \subseteq {"rx"}
    /\ Len(results) <= MaxRecv
====
